---- MODULE Spec2Model ----
(***************************************************************************)
(* Burner Chat server (src/index.js): the room registry, the per-socket    *)
(* session, the three socket handlers (join_room, send_message,            *)
(* disconnect) and the deferred deletion of empty rooms.                   *)
(*                                                                         *)
(* JavaScript values are records [t, s]: t is the typeof-like tag          *)
(* ("string", "undefined", "null", "number") and s the characters of a     *)
(* string value (a sequence of one-character strings, <<>> otherwise).     *)
(* One step of the model is one run of a handler or of a timer callback:   *)
(* Node runs each of them to completion on a single thread.                *)
(***************************************************************************)
EXTENDS Integers, Sequences, FiniteSets, TLC

\* ------------------------------------------------------------------ bounds
\* Number of sockets that ever connect; a socket id is 1..NumConns.
NumConns == 2
\* Number of send_message events accepted in one run of Spec.
MaxSends == 2
\* Last instant of the model's clock.
MaxTime == 1
\* Number of send_message events accepted in one run of SpecHistory.
HistorySends == 102

\* ------------------------------------------------------- program constants
\* room.messages.length > 100
HistoryLimit == 100
\* substring(0, 20)
MaxNameLen == 20
\* setTimeout(..., 5 * 60 * 1000): the clock of the model ticks once per delay.
GraceTicks == 1

\* ------------------------------------------------------------- JS values
Str(chars) == [t |-> "string", s |-> chars]
Undefined == [t |-> "undefined", s |-> <<>>]
Null == [t |-> "null", s |-> <<>>]
\* a non-zero number, e.g. 7
Num == [t |-> "number", s |-> <<"7">>]

\* JavaScript truthiness of the values above.
Truthy(v) ==
    CASE v.t = "string" -> v.s # <<>>
      [] v.t = "number" -> TRUE
      [] OTHER -> FALSE

IsSpace(ch) == ch = " "

RECURSIVE TrimStart(_)
TrimStart(chars) ==
    IF chars # <<>> /\ IsSpace(Head(chars)) THEN TrimStart(Tail(chars)) ELSE chars

RECURSIVE TrimEnd(_)
TrimEnd(chars) ==
    IF chars # <<>> /\ IsSpace(chars[Len(chars)])
    THEN TrimEnd(SubSeq(chars, 1, Len(chars) - 1))
    ELSE chars

\* String.prototype.trim
Trim(chars) == TrimEnd(TrimStart(chars))

\* String.prototype.substring(0, n)
Substring0(chars, n) == SubSeq(chars, 1, IF Len(chars) < n THEN Len(chars) ELSE n)

\* ---------------------------------------------------------------- inputs
Conns == 1 .. NumConns

\* Room identifiers a client sends: "", "lobby" and "den".
RoomIdInputs == {Str(<<>>), Str(<<"l">>), Str(<<"d">>)}

\* A username of 21 characters between two blanks.
LongName ==
    <<" ", "a", "b", "c", "d", "e", "f", "g", "h", "i", "j", "k", "l", "m", "n", "o",
      "p", "q", "r", "s", "t", "u", " ">>

\* Usernames a client sends: absent, " ", " Al ", the long one and a number.
NameInputs == {Undefined, Str(<<" ">>), Str(<<" ", "A", "l", " ">>), Str(LongName), Num}

\* Payloads of join_room: a bare string; an object with roomId and username,
\* without username, without roomId, with a blank username, with a username
\* that is no string; null; a missing payload.
JoinPayloads ==
    {[kind |-> "string", roomId |-> r, username |-> Undefined] : r \in RoomIdInputs}
    \cup {[kind |-> "object", roomId |-> r, username |-> Str(<<" ", "A", "l", " ">>)] :
            r \in RoomIdInputs \cup {Undefined}}
    \cup {[kind |-> "object", roomId |-> Str(<<"l">>), username |-> u] : u \in NameInputs}
    \cup {[kind |-> k, roomId |-> Undefined, username |-> Undefined] :
            k \in {"null", "undefined"}}

\* Message texts a client sends: absent, "", " ", " hi " and a number.
TextInputs == {Undefined, Str(<<>>), Str(<<" ">>), Str(<<" ", "h", "i", " ">>), Num}

\* Payloads of send_message: an object (message present or not), null and a
\* missing payload.
SendPayloads ==
    {[kind |-> "object", message |-> m] : m \in TextInputs}
    \cup {[kind |-> k, message |-> Undefined] : k \in {"null", "undefined"}}

\* Results of Math.random().toString(36).substring(2, 6): four characters, or
\* fewer when the base-36 expansion is short (0.5 gives "0.i", so "i").
AnonSuffixes == {<<"7", "x", "3", "k">>, <<"i">>}

\* ----------------------------------------------------------------- state
VARIABLES
    status,     \* socket id -> "new" | "open" | "closed"
    userData,   \* socket id -> [username, currentRoom]   (socket.userData)
    rooms,      \* the rooms Map: room id -> [users, messages, createdAt]
    joined,     \* socket id -> the room ids the socket is in (socket.join/leave)
    timers,     \* pending setTimeout callbacks: [roomId, due, by]
    now,        \* the clock
    nextId,     \* number of message ids issued (uuidv4)
    log,        \* room id -> every message accepted since the room was created
    out,        \* the events the last handler emitted, in order
    lastEvent,  \* the event the last step handled and the socket it came from
    raised      \* a handler threw: the exception is uncaught

vars == <<status, userData, rooms, joined, timers, now, nextId, log, out, lastEvent, raised>>

\* The initial value of socket.userData.
NewUserData == [username |-> Null, currentRoom |-> Null]

\* new Map()
NoRooms == [r \in {} |-> {}]

Init ==
    /\ status = [c \in Conns |-> "new"]
    /\ userData = [c \in Conns |-> NewUserData]
    /\ rooms = NoRooms
    /\ joined = [c \in Conns |-> {}]
    /\ timers = {}
    /\ now = 0
    /\ nextId = 0
    /\ log = NoRooms
    /\ out = <<>>
    /\ lastEvent = [op |-> "none", conn |-> 0]
    /\ raised = FALSE

\* The sockets a room-targeted emit reaches: those that joined the room.
Group(roomId) == {c \in Conns : roomId \in joined[c]}

\* rooms.has(roomId)
HasRoom(roomId) == roomId \in DOMAIN rooms

\* io.on('connection'): the socket gets its userData.
Connect(c) ==
    /\ ~raised
    /\ status[c] = "new"
    /\ status' = [status EXCEPT ![c] = "open"]
    /\ userData' = [userData EXCEPT ![c] = NewUserData]
    /\ out' = <<>>
    /\ lastEvent' = [op |-> "connection", conn |-> c]
    /\ UNCHANGED <<rooms, joined, timers, now, nextId, log, raised>>

\* ------------------------------------------------------------ join_room
\* const roomId = typeof data === 'string' ? data : data.roomId
JoinRoomId(data) == data.roomId

\* const customUsername = typeof data === 'object' ? data.username : null
CustomUsername(data) == IF data.kind = "object" THEN data.username ELSE Null

\* The handler throws a TypeError: data.roomId of null or undefined, or
\* customUsername.trim of a truthy value that is no string.
JoinThrows(data) ==
    \/ data.kind \in {"null", "undefined"}
    \/ Truthy(CustomUsername(data)) /\ CustomUsername(data).t # "string"

\* generateUsername, for one result of Math.random
GenerateUsername(suffix) == Str(<<"A", "n", "o", "n", "-">> \o suffix)

\* The display name join_room sets.
ResolveName(data, suffix) ==
    LET customUsername == CustomUsername(data) IN
    IF Truthy(customUsername) /\ Trim(customUsername.s) # <<>>
    THEN Str(Substring0(Trim(customUsername.s), MaxNameLen))
    ELSE GenerateUsername(suffix)

\* if (socket.userData.currentRoom) { ... prevRoom.users.delete(socket.id) }
LeavePrevious(rs, c, cur) ==
    IF Truthy(cur) /\ cur \in DOMAIN rs
    THEN [rs EXCEPT ![cur].users = @ \ {c}]
    ELSE rs

\* if (socket.userData.currentRoom) socket.leave(socket.userData.currentRoom)
SocketLeave(js, cur) == IF Truthy(cur) THEN js \ {cur} ELSE js

\* GetOrCreateRoom without the rooms.has test: the room is set anew each time.
GetOrCreateRoomAnew(rs, roomId, clock) ==
    [r \in DOMAIN rs \cup {roomId} |->
        IF r = roomId
        THEN [users |-> {}, messages |-> <<>>, createdAt |-> clock]
        ELSE rs[r]]

\* getOrCreateRoom: the rooms Map afterwards.
GetOrCreateRoom(rs, roomId, clock) ==
    IF roomId \in DOMAIN rs
    THEN rs
    ELSE [r \in DOMAIN rs \cup {roomId} |->
            IF r = roomId
            THEN [users |-> {}, messages |-> <<>>, createdAt |-> clock]
            ELSE rs[r]]

\* room.users.add(socket.id)
AddUser(rs, roomId, c) == [rs EXCEPT ![roomId].users = @ \cup {c}]

\* The log of a room getOrCreateRoom creates starts empty.
LogAfterCreate(lg, roomId) ==
    IF roomId \in DOMAIN lg
    THEN lg
    ELSE [r \in DOMAIN lg \cup {roomId} |-> IF r = roomId THEN <<>> ELSE lg[r]]

\* "<name> joined the chat" / "<name> left the chat"
ActivityText(name, verb) == name.s \o <<" ">> \o verb

\* socket.emit('user_joined', ...) then socket.to(roomId).emit('user_activity', ...)
JoinEmits(c, roomId, name, count, group) ==
    << [event |-> "user_joined", to |-> {c}, room |-> roomId,
        payload |-> [username |-> name, userCount |-> count]],
       [event |-> "user_activity", to |-> group \ {c}, room |-> roomId,
        payload |-> [type |-> "join", message |-> ActivityText(name, <<"joined">>),
                     userCount |-> count]] >>

\* A handler throws: nothing catches the exception and the process ends.
Throw ==
    /\ raised' = TRUE
    /\ out' = <<>>
    /\ UNCHANGED <<status, userData, rooms, joined, timers, now, nextId, log>>

\* socket.on('join_room', ...)
JoinRoom(c, data, suffix) ==
    /\ ~raised
    /\ status[c] = "open"
    /\ lastEvent' = [op |-> "join_room", conn |-> c]
    /\ IF JoinThrows(data)
       THEN Throw
       ELSE LET roomId == JoinRoomId(data)
                name == ResolveName(data, suffix)
                cur == userData[c].currentRoom
                left == LeavePrevious(rooms, c, cur)
                rooms2 == AddUser(GetOrCreateRoom(left, roomId, now), roomId, c)
                joined2 == [joined EXCEPT ![c] = SocketLeave(@, cur) \cup {roomId}]
            IN  /\ userData' = [userData EXCEPT ![c] =
                                    [username |-> name, currentRoom |-> roomId]]
                /\ rooms' = rooms2
                /\ joined' = joined2
                /\ log' = LogAfterCreate(log, roomId)
                /\ out' = JoinEmits(c, roomId, name, Cardinality(rooms2[roomId].users),
                                    {d \in Conns : roomId \in joined2[d]})
                /\ UNCHANGED <<status, timers, now, nextId, raised>>

\* --------------------------------------------------------- send_message
\* The handler throws a TypeError: the destructuring of null or undefined, or
\* message?.trim of a value that is neither nullish nor a string (evaluated
\* only when roomId is truthy).
SendThrows(c, data) ==
    \/ data.kind \in {"null", "undefined"}
    \/ Truthy(userData[c].currentRoom) /\ data.message.t = "number"

\* BlankText without the trim: only the empty string is blank.
BlankTextUntrimmed(message) ==
    \/ message.t \in {"undefined", "null"}
    \/ message.t = "string" /\ message.s = <<>>

\* !message?.trim()
BlankText(message) ==
    \/ message.t \in {"undefined", "null"}
    \/ message.t = "string" /\ Trim(message.s) = <<>>

\* if (!roomId || !message?.trim()) return;  if (!room) return;
SendIgnored(c, data) ==
    \/ ~Truthy(userData[c].currentRoom)
    \/ BlankText(data.message)
    \/ ~HasRoom(userData[c].currentRoom)

\* const messageObj = { id, sender, senderId, message, timestamp }
MessageObj(c, data) ==
    [id |-> nextId + 1, sender |-> userData[c].username, senderId |-> c,
     message |-> Trim(data.message.s), timestamp |-> now]

\* StoreMessage that puts the message at the head (unshift) instead of the end.
StoreMessageAtHead(messages, m) ==
    LET pushed == <<m>> \o messages IN
    IF Len(pushed) > HistoryLimit THEN Tail(pushed) ELSE pushed

\* StoreMessage that drops the newest message (pop) instead of the oldest.
StoreMessageDropNewest(messages, m) ==
    LET pushed == Append(messages, m) IN
    IF Len(pushed) > HistoryLimit THEN SubSeq(pushed, 1, Len(pushed) - 1) ELSE pushed

\* room.messages.push(messageObj); if (room.messages.length > 100) room.messages.shift()
StoreMessage(messages, m) ==
    LET pushed == Append(messages, m) IN
    IF Len(pushed) > HistoryLimit THEN Tail(pushed) ELSE pushed

\* SendEmits through socket.to(roomId), which leaves the sender out.
SendEmitsToOthers(roomId, m) ==
    << [event |-> "receive_message", to |-> Group(roomId) \ {m.senderId}, room |-> roomId,
        payload |-> m] >>

\* io.to(roomId).emit('receive_message', messageObj)
SendEmits(roomId, m) ==
    << [event |-> "receive_message", to |-> Group(roomId), room |-> roomId, payload |-> m] >>

\* socket.on('send_message', ...)
SendMessage(c, data) ==
    /\ ~raised
    /\ status[c] = "open"
    /\ lastEvent' = [op |-> "send_message", conn |-> c]
    /\ IF SendThrows(c, data)
       THEN Throw
       ELSE IF SendIgnored(c, data)
       THEN /\ out' = <<>>
            /\ UNCHANGED <<status, userData, rooms, joined, timers, now, nextId, log, raised>>
       ELSE LET roomId == userData[c].currentRoom
                m == MessageObj(c, data)
            IN  /\ rooms' = [rooms EXCEPT ![roomId].messages = StoreMessage(@, m)]
                /\ log' = [log EXCEPT ![roomId] = Append(@, m)]
                /\ nextId' = nextId + 1
                /\ out' = SendEmits(roomId, m)
                /\ UNCHANGED <<status, userData, joined, timers, now, raised>>

\* ----------------------------------------------------------- disconnect
\* room.users.delete(socket.id)
RemoveUser(rs, roomId, c) == [rs EXCEPT ![roomId].users = @ \ {c}]

\* socket.to(roomId).emit('user_activity', { type: 'leave', ... })
LeaveEmits(c, roomId, name, count, group) ==
    << [event |-> "user_activity", to |-> group \ {c}, room |-> roomId,
        payload |-> [type |-> "leave", message |-> ActivityText(name, <<"left">>),
                     userCount |-> count]] >>

\* ScheduleReap with the test of emptiness inverted.
ScheduleReapInverted(ts, rs, roomId, c) ==
    IF rs[roomId].users # {}
    THEN ts \cup {[roomId |-> roomId, due |-> now + GraceTicks, by |-> c]}
    ELSE ts

\* if (room.users.size === 0) setTimeout(..., 5 * 60 * 1000)
ScheduleReap(ts, rs, roomId, c) ==
    IF rs[roomId].users = {}
    THEN ts \cup {[roomId |-> roomId, due |-> now + GraceTicks, by |-> c]}
    ELSE ts

\* The socket closes: the transport takes it out of every room it joined, then
\* socket.on('disconnect', ...) runs.
Disconnect(c) ==
    /\ ~raised
    /\ status[c] = "open"
    /\ status' = [status EXCEPT ![c] = "closed"]
    /\ joined' = [joined EXCEPT ![c] = {}]
    /\ lastEvent' = [op |-> "disconnect", conn |-> c]
    /\ LET roomId == userData[c].currentRoom IN
       IF Truthy(roomId) /\ HasRoom(roomId)
       THEN LET rooms2 == RemoveUser(rooms, roomId, c) IN
            /\ rooms' = rooms2
            /\ out' = LeaveEmits(c, roomId, userData[c].username,
                                 Cardinality(rooms2[roomId].users),
                                 {d \in Conns : roomId \in joined'[d]})
            /\ timers' = ScheduleReap(timers, rooms2, roomId, c)
       ELSE /\ out' = <<>>
            /\ UNCHANGED <<rooms, timers>>
    /\ UNCHANGED <<userData, now, nextId, log, raised>>

\* ------------------------------------------------------------ the reaper
\* Reaps without the re-check of emptiness at expiry.
ReapsWithoutRecheck(rs, roomId) == roomId \in DOMAIN rs

\* if (currentRoom && currentRoom.users.size === 0) rooms.delete(roomId)
Reaps(rs, roomId) == roomId \in DOMAIN rs /\ rs[roomId].users = {}

\* rooms.delete(roomId)
DeleteRoom(rs, roomId) == [r \in DOMAIN rs \ {roomId} |-> rs[r]]

\* The callback of one setTimeout runs, at or after its due time.
TimerFire(timer) ==
    /\ ~raised
    /\ timer \in timers
    /\ now >= timer.due
    /\ timers' = timers \ {timer}
    /\ IF Reaps(rooms, timer.roomId)
       THEN /\ rooms' = DeleteRoom(rooms, timer.roomId)
            /\ log' = DeleteRoom(log, timer.roomId)
       ELSE UNCHANGED <<rooms, log>>
    /\ out' = <<>>
    /\ lastEvent' = [op |-> "timer", conn |-> timer.by]
    /\ UNCHANGED <<status, userData, joined, now, nextId, raised>>

\* Time passes.
Tick ==
    /\ ~raised
    /\ now' = now + 1
    /\ out' = <<>>
    /\ lastEvent' = [op |-> "tick", conn |-> 0]
    /\ UNCHANGED <<status, userData, rooms, joined, timers, nextId, log, raised>>

\* ------------------------------------------------------- specifications
\* The inputs of Spec: join_room in its legacy form (a bare room id, so the
\* name is generated), send_message with a text, a blank text or no text.
CoreJoins == {d \in JoinPayloads : d.kind = "string"}
CoreSuffixes == {<<"7", "x", "3", "k">>}
CoreSends == {d \in SendPayloads : d.kind = "object" /\ d.message.t # "number"}

\* Every handler, the reaper and the clock.
Next ==
    \/ \E c \in Conns : Connect(c)
    \/ \E c \in Conns, data \in CoreJoins, suffix \in CoreSuffixes : JoinRoom(c, data, suffix)
    \/ \E c \in Conns, data \in CoreSends : nextId < MaxSends /\ SendMessage(c, data)
    \/ \E c \in Conns : now + GraceTicks <= MaxTime /\ Disconnect(c)
    \/ \E timer \in timers : TimerFire(timer)
    \/ now < MaxTime /\ Tick

Spec == Init /\ [][Next]_vars

\* Spec with the scheduling of Node: time passes and a timer that is due runs.
Fairness ==
    /\ WF_vars(now < MaxTime /\ Tick)
    /\ WF_vars(\E timer \in timers : TimerFire(timer))

SpecLive == Spec /\ Fairness

\* Every payload shape from one socket, on a clock that stands still.
PayloadConns == {1}

NextPayloads ==
    \/ \E c \in PayloadConns : Connect(c)
    \/ \E c \in PayloadConns, data \in JoinPayloads, suffix \in AnonSuffixes :
          JoinRoom(c, data, suffix)
    \/ \E c \in PayloadConns, data \in SendPayloads : nextId < MaxSends /\ SendMessage(c, data)
    \/ \E c \in PayloadConns : Disconnect(c)

SpecPayloads == Init /\ [][NextPayloads]_vars

\* One socket in one room sends until the history has overflowed.
HistoryJoin == [kind |-> "string", roomId |-> Str(<<"l">>), username |-> Undefined]
HistorySend == [kind |-> "object", message |-> Str(<<" ", "h", "i", " ">>)]

NextHistory ==
    \/ Connect(1)
    \/ \E suffix \in CoreSuffixes : JoinRoom(1, HistoryJoin, suffix)
    \/ nextId < HistorySends /\ SendMessage(1, HistorySend)

SpecHistory == Init /\ [][NextHistory]_vars

\* ---------------------------------------------------------------- claims
\* The rooms whose membership set holds socket c.
MemberRooms(c) == {r \in DOMAIN rooms : c \in rooms[r].users}

\* The socket has handled at least one join_room.
HasJoined(c) == userData[c].username.t # "null"

\* C1: after any sequence of join_room events an open socket is a member of
\* exactly the room its most recent join_room named, and of no other.
C1_MemberOfLastJoinedOnly ==
    \A c \in Conns :
        (status[c] = "open" /\ HasJoined(c)) => MemberRooms(c) = {userData[c].currentRoom}

\* C2: once a socket's disconnect has been handled, no room lists it as a member.
C2_ClosedIsNowhere ==
    \A c \in Conns : status[c] = "closed" => MemberRooms(c) = {}

\* C3: a room leaves the store only in a step in which it existed with an empty
\* membership set, and a timer that fires for an absent room or for a room with
\* a member changes neither the store nor any session.
C3_ReapOnlyEmpty ==
    [][ /\ \A r \in DOMAIN rooms : r \notin DOMAIN rooms' => rooms[r].users = {}
        /\ \A timer \in timers :
              (TimerFire(timer)
                 /\ ~(timer.roomId \in DOMAIN rooms /\ rooms[timer.roomId].users = {}))
              => UNCHANGED <<rooms, userData, joined, status, log>> ]_vars

\* C3 witness: the timer a socket's disconnect scheduled has just fired while
\* the room, joined again in the meantime, has a member; the room is still there.
C3_Witness ==
    /\ lastEvent.op = "timer"
    /\ LET roomId == userData[lastEvent.conn].currentRoom IN
       /\ roomId \in DOMAIN rooms
       /\ rooms[roomId].users # {}

\* Every room identifier a payload of the model can name.
AllRoomIds == RoomIdInputs \cup {Undefined}

\* The disconnect just handled was of a socket in room r and left r without members.
EmptiedByDisconnect(r) ==
    /\ lastEvent.op = "disconnect"
    /\ userData[lastEvent.conn].currentRoom = r
    /\ r \in DOMAIN rooms
    /\ rooms[r].users = {}

\* C4: when a disconnect leaves a room without members then, timers firing
\* once due, the room is eventually absent from the store unless it is joined
\* again first.
C4_EmptiedRoomIsReaped ==
    \A r \in AllRoomIds :
        EmptiedByDisconnect(r) ~> (r \notin DOMAIN rooms \/ rooms[r].users # {})

\* C4 witness: the timer a disconnect scheduled has fired and the room that
\* disconnect emptied is gone.
C4_Witness ==
    /\ lastEvent.op = "timer"
    /\ status[lastEvent.conn] = "closed"
    /\ userData[lastEvent.conn].currentRoom \notin DOMAIN rooms
    /\ timers = {}

\* The last n elements of a sequence (all of it when it is shorter).
LastN(seq, n) == IF Len(seq) <= n THEN seq ELSE SubSeq(seq, Len(seq) - n + 1, Len(seq))

\* C5: a room never stores more than 100 messages, and what it stores is the
\* last min(n, 100) of the n messages it accepted, in the order of acceptance.
C5_HistoryIsLastHundred ==
    \A r \in DOMAIN rooms :
        /\ Len(rooms[r].messages) <= HistoryLimit
        /\ rooms[r].messages = LastN(log[r], HistoryLimit)

\* C5 witness: a room that accepted more than 100 messages has just stored one more.
C5_Witness ==
    /\ lastEvent.op = "send_message"
    /\ \E r \in DOMAIN rooms :
          /\ Len(log[r]) > HistoryLimit + 1
          /\ Len(rooms[r].messages) = HistoryLimit
          /\ rooms[r].messages[1].id = Len(log[r]) - HistoryLimit + 1

\* The text is empty or holds white space only.
WhitespaceOnly(chars) == \A i \in 1 .. Len(chars) : chars[i] = " "

\* The cases in which C6 wants send_message(data) from socket c ignored.
MustBeIgnored(c, data) ==
    \/ data.message.t = "undefined"
    \/ data.message.t = "string" /\ WhitespaceOnly(data.message.s)
    \/ userData[c].currentRoom = Null
    \/ userData[c].currentRoom \notin DOMAIN rooms

\* C6: a send_message (an object payload) without text, with an empty or
\* white-space text, from a socket without a room or whose room is not in the
\* store changes no room, no membership, no session and emits nothing.
C6_RejectedSendIsNoOp ==
    [][ \A c \in Conns, data \in SendPayloads :
            (data.kind = "object" /\ SendMessage(c, data) /\ MustBeIgnored(c, data))
            => /\ UNCHANGED <<rooms, userData, joined, status, timers, log, nextId>>
               /\ out' = <<>>
               /\ raised' = FALSE ]_vars

\* C6 witness: a socket that is in a room of the store has just sent, and
\* nothing was emitted or stored: its text was blank.
C6_Witness ==
    /\ lastEvent.op = "send_message"
    /\ out = <<>>
    /\ ~raised
    /\ LET roomId == userData[lastEvent.conn].currentRoom IN
       /\ Truthy(roomId)
       /\ roomId \in DOMAIN rooms
       /\ lastEvent.conn \in rooms[roomId].users
       /\ rooms[roomId].messages = <<>>

\* C7: no handler throws, whatever the payload, and an event that is not acted
\* upon (nothing emitted) leaves rooms and sessions as they were.
C7_NoHandlerThrows ==
    [][ /\ raised' = FALSE
        /\ (lastEvent'.op \in {"join_room", "send_message"} /\ out' = <<>>)
              => UNCHANGED <<rooms, userData>> ]_vars

C9_JoinNotifiesOtherMembers ==
    (lastEvent.op = "join_room" /\ ~raised) =>
        LET c == lastEvent.conn
            roomId == userData[c].currentRoom
        IN  /\ Len(out) = 2
            /\ out[1].event = "user_joined"
            /\ out[1].to = {c}
            /\ out[1].payload.userCount = Cardinality(rooms[roomId].users)
            /\ out[2].event = "user_activity"
            /\ out[2].payload.type = "join"
            /\ out[2].to = rooms[roomId].users \ {c}
            /\ out[2].payload.userCount = Cardinality(rooms[roomId].users)

\* C10: the disconnect of a socket that is in a room emits a leave
\* user_activity to exactly the remaining members, not to the socket itself,
\* with the size of the membership set after the removal; the disconnect of a
\* socket without a room emits nothing and changes no room.
C10_LeaveNotifiesRemaining ==
    [][ lastEvent'.op = "disconnect" =>
          LET c == lastEvent'.conn
              roomId == userData[c].currentRoom
          IN  IF roomId = Null
              THEN out' = <<>> /\ rooms' = rooms
              ELSE /\ Len(out') = 1
                   /\ out'[1].event = "user_activity"
                   /\ out'[1].payload.type = "leave"
                   /\ roomId \in DOMAIN rooms'
                   /\ c \notin rooms'[roomId].users
                   /\ out'[1].to = rooms'[roomId].users
                   /\ out'[1].payload.userCount = Cardinality(rooms'[roomId].users) ]_vars

\* C11: within a room the stored messages are in the order of their
\* acceptance (ids are issued in that order), and the message a send emits is
\* the one accepted last, so every socket receives the messages of a room in
\* the order of acceptance.
C11_AcceptanceOrder ==
    /\ \A r \in DOMAIN rooms :
          \A i, j \in 1 .. Len(rooms[r].messages) :
              i < j => rooms[r].messages[i].id < rooms[r].messages[j].id
    /\ (lastEvent.op = "send_message" /\ out # <<>>) =>
          /\ out[1].payload.id = nextId
          /\ \A r \in DOMAIN rooms :
                \A i \in 1 .. Len(rooms[r].messages) : rooms[r].messages[i].id <= nextId

\* C11 witness: a room holds two messages and the second has just been
\* delivered to two sockets.
C11_Witness ==
    /\ lastEvent.op = "send_message"
    /\ Len(out) = 1
    /\ Cardinality(out[1].to) = 2
    /\ \E r \in DOMAIN rooms :
          /\ Len(rooms[r].messages) = 2
          /\ rooms[r].messages[2] = out[1].payload

\* The characters of a base-36 numeral.
LowerAlnum ==
    {"0", "1", "2", "3", "4", "5", "6", "7", "8", "9",
     "a", "b", "c", "d", "e", "f", "g", "h", "i", "j", "k", "l", "m",
     "n", "o", "p", "q", "r", "s", "t", "u", "v", "w", "x", "y", "z"}

\* "Anon-" followed by exactly four lowercase alphanumeric characters.
IsAnonName(u) ==
    /\ u.t = "string"
    /\ Len(u.s) = 9
    /\ SubSeq(u.s, 1, 5) = <<"A", "n", "o", "n", "-">>
    /\ \A i \in 6 .. 9 : u.s[i] \in LowerAlnum

\* The payload supplies a username that is a string and not blank.
SuppliesName(data) ==
    /\ data.kind = "object"
    /\ data.username.t = "string"
    /\ \E i \in 1 .. Len(data.username.s) : ~IsSpace(data.username.s[i])

\* C12: after a join_room that does not throw, the display name is the
\* supplied username trimmed and cut to 20 characters if the payload supplies
\* a non-blank one, and otherwise "Anon-" plus exactly four lowercase
\* alphanumeric characters; either way it is non-empty and at most 20 long.
C12_NameFromPayload ==
    [][\A c \in PayloadConns, data \in JoinPayloads, suffix \in AnonSuffixes :
          (JoinRoom(c, data, suffix) /\ ~JoinThrows(data)) =>
              LET u == userData'[c].username IN
              /\ u.t = "string"
              /\ Len(u.s) >= 1
              /\ Len(u.s) <= MaxNameLen
              /\ IF SuppliesName(data)
                 THEN u.s = Substring0(Trim(data.username.s), MaxNameLen)
                 ELSE IsAnonName(u)]_vars

\* C12 for supplied usernames only: the name is the trimmed username cut to
\* 20 characters.
C12_SuppliedName ==
    [][\A c \in PayloadConns, data \in JoinPayloads, suffix \in AnonSuffixes :
          (JoinRoom(c, data, suffix) /\ SuppliesName(data)) =>
              LET u == userData'[c].username IN
              /\ u.s = Substring0(Trim(data.username.s), MaxNameLen)
              /\ Len(u.s) >= 1
              /\ Len(u.s) <= MaxNameLen]_vars

\* C13: every room of the store that has no member has a deferred deletion
\* pending, whatever emptied it (a disconnect, or a join_room that moved its
\* last member to another room), so that no empty room stays for ever.
C13_EmptyRoomHasTimer ==
    \A r \in DOMAIN rooms :
        rooms[r].users = {} => \E timer \in timers : timer.roomId = r

\* C14: a send_message from an open socket that has joined a room (any room
\* identifier, the empty string included), with a text that is not blank,
\* appends exactly one message with the socket's display name, its id and
\* the trimmed text to that room, and changes the messages of no other room.
C14_SendAppendsToOwnRoom ==
    [][\A c \in Conns, data \in CoreSends :
          (/\ SendMessage(c, data)
           /\ userData[c].currentRoom # Null
           /\ data.message.t = "string"
           /\ ~WhitespaceOnly(data.message.s)) =>
              LET roomId == userData[c].currentRoom IN
              /\ roomId \in DOMAIN rooms'
              /\ Len(log'[roomId]) = Len(log[roomId]) + 1
              /\ LET m == log'[roomId][Len(log'[roomId])] IN
                 /\ m.sender = userData[c].username
                 /\ m.senderId = c
                 /\ m.message = Trim(data.message.s)
                 /\ rooms'[roomId].messages # <<>>
                 /\ rooms'[roomId].messages[Len(rooms'[roomId].messages)] = m
              /\ \A q \in DOMAIN rooms \ {roomId} :
                    q \in DOMAIN rooms' /\ rooms'[q].messages = rooms[q].messages]_vars

\* C14 for room identifiers other than the empty string.
C14_SendAppendsToNamedRoom ==
    [][\A c \in Conns, data \in CoreSends :
          (/\ SendMessage(c, data)
           /\ Truthy(userData[c].currentRoom)
           /\ data.message.t = "string"
           /\ ~WhitespaceOnly(data.message.s)) =>
              LET roomId == userData[c].currentRoom IN
              /\ roomId \in DOMAIN rooms'
              /\ log'[roomId] = Append(log[roomId], MessageObj(c, data))
              /\ rooms'[roomId].messages = StoreMessage(rooms[roomId].messages, MessageObj(c, data))
              /\ \A q \in DOMAIN rooms \ {roomId} :
                    q \in DOMAIN rooms' /\ rooms'[q].messages = rooms[q].messages]_vars

\* C15: a join_room that moves a socket from room A to a different room B
\* removes the socket from A's members and changes nothing else of A (other
\* members, messages, creation time); no event is addressed to A and A's
\* remaining members receive nothing.
C15_MoveLeavesOldRoomQuietly ==
    [][\A c \in Conns, data \in CoreJoins, suffix \in CoreSuffixes :
          (/\ JoinRoom(c, data, suffix)
           /\ userData[c].currentRoom \in DOMAIN rooms
           /\ c \in rooms[userData[c].currentRoom].users
           /\ JoinRoomId(data) # userData[c].currentRoom) =>
              LET A == userData[c].currentRoom IN
              /\ A \in DOMAIN rooms'
              /\ rooms'[A] = [rooms[A] EXCEPT !.users = @ \ {c}]
              /\ \A i \in 1 .. Len(out') :
                    /\ out'[i].room # A
                    /\ out'[i].to \cap (rooms[A].users \ {c}) = {}]_vars

\* C15 for a room A whose identifier is not the empty string, as far as the
\* store and the addressing of events go.
C15_MoveFromNamedRoom ==
    [][\A c \in Conns, data \in CoreJoins, suffix \in CoreSuffixes :
          (/\ JoinRoom(c, data, suffix)
           /\ Truthy(userData[c].currentRoom)
           /\ userData[c].currentRoom \in DOMAIN rooms
           /\ c \in rooms[userData[c].currentRoom].users
           /\ JoinRoomId(data) # userData[c].currentRoom) =>
              LET A == userData[c].currentRoom IN
              /\ A \in DOMAIN rooms'
              /\ rooms'[A] = [rooms[A] EXCEPT !.users = @ \ {c}]
              /\ \A i \in 1 .. Len(out') : out'[i].room # A]_vars

\* C16: a join_room of a socket to the room it is in already leaves the
\* room's members and messages as they were, and still emits user_joined to
\* the socket and a join user_activity to the other members of the room.
C16_RejoinSameRoom ==
    [][\A c \in Conns, data \in CoreJoins, suffix \in CoreSuffixes :
          (/\ JoinRoom(c, data, suffix)
           /\ JoinRoomId(data) = userData[c].currentRoom
           /\ JoinRoomId(data) \in DOMAIN rooms
           /\ c \in rooms[JoinRoomId(data)].users) =>
              LET r == JoinRoomId(data) IN
              /\ r \in DOMAIN rooms'
              /\ rooms'[r].users = rooms[r].users
              /\ rooms'[r].messages = rooms[r].messages
              /\ Len(out') = 2
              /\ out'[1].event = "user_joined"
              /\ out'[1].to = {c}
              /\ out'[1].payload.userCount = Cardinality(rooms[r].users)
              /\ out'[2].event = "user_activity"
              /\ out'[2].payload.type = "join"
              /\ out'[2].to = rooms[r].users \ {c}]_vars

\* C16 with the recipients taken among the sockets that are still open: the
\* room is as it was, and both events are emitted.
C16_RejoinKeepsRoom ==
    [][\A c \in Conns, data \in CoreJoins, suffix \in CoreSuffixes :
          (/\ JoinRoom(c, data, suffix)
           /\ JoinRoomId(data) = userData[c].currentRoom
           /\ JoinRoomId(data) \in DOMAIN rooms
           /\ c \in rooms[JoinRoomId(data)].users) =>
              LET r == JoinRoomId(data) IN
              /\ r \in DOMAIN rooms'
              /\ rooms'[r] = rooms[r]
              /\ Len(out') = 2
              /\ out'[1].event = "user_joined"
              /\ out'[1].to = {c}
              /\ out'[1].payload.userCount = Cardinality(rooms[r].users)
              /\ out'[2].event = "user_activity"
              /\ out'[2].payload.type = "join"
              /\ out'[2].to = {d \in rooms[r].users \ {c} : status[d] = "open"}]_vars

\* C17: a join_room creates a room only for an identifier that is absent from
\* the store, and the new room starts with no messages and the joiner as its
\* only member; a room that is present keeps its messages and creation time,
\* and of its members only the joiner can change; no join removes a room.
C17_CreateOnlyWhenAbsent ==
    [][lastEvent'.op = "join_room" =>
          LET c == lastEvent'.conn IN
          /\ DOMAIN rooms \subseteq DOMAIN rooms'
          /\ \A q \in DOMAIN rooms :
                /\ rooms'[q].messages = rooms[q].messages
                /\ rooms'[q].createdAt = rooms[q].createdAt
                /\ rooms'[q].users \ {c} = rooms[q].users \ {c}
          /\ \A q \in DOMAIN rooms' \ DOMAIN rooms :
                /\ q = userData'[c].currentRoom
                /\ rooms'[q] = [users |-> {c}, messages |-> <<>>, createdAt |-> now]]_vars

\* C17 witness: a socket has just joined a room that existed before with a
\* message in it and an earlier creation time.
C17_Witness ==
    /\ lastEvent.op = "join_room"
    /\ userData[lastEvent.conn].currentRoom \in DOMAIN rooms
    /\ LET room == rooms[userData[lastEvent.conn].currentRoom] IN
       /\ room.messages # <<>>
       /\ room.createdAt < now
       /\ Cardinality(room.users) = 2

\* ------------------------------------------- two grace delays on the clock
\* The clock of SpecGrace runs for two grace delays, so that a room can be
\* emptied, joined again and emptied a second time before the first timer
\* is due; there are no messages.
GraceHorizon == 2

NextGrace ==
    \/ \E c \in Conns : Connect(c)
    \/ \E c \in Conns, data \in CoreJoins, suffix \in CoreSuffixes : JoinRoom(c, data, suffix)
    \/ \E c \in Conns : now + GraceTicks <= GraceHorizon /\ Disconnect(c)
    \/ \E timer \in timers : TimerFire(timer)
    \/ now < GraceHorizon /\ Tick

SpecGrace == Init /\ [][NextGrace]_vars

\* C18: a room is deleted no earlier than one grace delay after its members
\* last became none: when a room is deleted, every timer that an emptying of
\* the room has scheduled has run its full delay (a timer still pending is
\* that of a later emptying, which happened at due - GraceTicks).
C18_NoEarlyDelete ==
    [][\A r \in DOMAIN rooms \ DOMAIN rooms' :
          \A timer \in timers' :
              timer.roomId = r => now >= (timer.due - GraceTicks) + GraceTicks]_vars

\* C19: every open socket whose userData has a current room refers to a room
\* that is in the store and has the socket among its members; so the
\* room-absent returns of send_message and disconnect are never taken.
C19_CurrentRoomExists ==
    \A c \in Conns :
        (status[c] = "open" /\ userData[c].currentRoom # Null) =>
            /\ HasRoom(userData[c].currentRoom)
            /\ c \in rooms[userData[c].currentRoom].users

\* C19 witness: the timer of a closed socket has fired for the room an open
\* socket is in now, no timer is left, and the room is there with its member.
C19_Witness ==
    /\ lastEvent.op = "timer"
    /\ timers = {}
    /\ status[lastEvent.conn] = "closed"
    /\ \E c \in Conns :
          /\ status[c] = "open"
          /\ Truthy(userData[c].currentRoom)
          /\ userData[c].currentRoom = userData[lastEvent.conn].currentRoom
          /\ HasRoom(userData[c].currentRoom)
          /\ rooms[userData[c].currentRoom].users = {c}

\* C20: the delivery group socket.io keeps for a room holds exactly the
\* members the store lists for it, and the group of an identifier that is not
\* in the store is empty.
C20_GroupIsMembership ==
    \A r \in AllRoomIds :
        Group(r) = IF r \in DOMAIN rooms THEN rooms[r].users ELSE {}

\* C20 for room identifiers other than the empty string.
C20_NamedGroupIsMembership ==
    \A r \in AllRoomIds :
        Truthy(r) => Group(r) = IF r \in DOMAIN rooms THEN rooms[r].users ELSE {}
====
